---- MODULE Spec2Model ----
(***************************************************************************)
(* Generalized series of ore_algebra (generalized_series.py): the          *)
(* continuous and the discrete value types, their normalizing              *)
(* constructors and their arithmetic, over the coefficient field QQ.       *)
(*                                                                         *)
(* Representation                                                          *)
(*   rational number      <<n, d>>, d > 0, gcd(n, d) = 1                    *)
(*   polynomial in K[x]   sequence of rationals, index i+1 holds the       *)
(*                        coefficient of x^i, last entry nonzero            *)
(*   power series K[[x]]  [co |-> polynomial, pr |-> precision]            *)
(*   tail / expansion     sequence of power series, index j+1 holds the    *)
(*                        coefficient of LOG^j, last entry nonzero          *)
(***************************************************************************)
EXTENDS Integers, Sequences, FiniteSets, TLC

(***************************************************************************)
(* Bounds of the model.                                                    *)
(***************************************************************************)
MaxRam == 4

MaxDiscRam == 2

MaxKeepDeg == 2

MaxKeeps == 1

MaxPrec == 2

MaxShift == 2

MaxDomains == 3

MaxExtensions == 1

MaxThreads == 2

(***************************************************************************)
(* Program constants.                                                      *)
(***************************************************************************)
infinity == 1000

DefaultPrec == 20

(***************************************************************************)
(* Integers: gcd, lcm.                                                     *)
(***************************************************************************)
Abs(n) == IF n < 0 THEN -n ELSE n

Min2(a, b) == IF a <= b THEN a ELSE b

Max2(a, b) == IF a >= b THEN a ELSE b

RECURSIVE gcd(_, _)
gcd(a, b) == IF b = 0 THEN Abs(a) ELSE gcd(b, Abs(a) % Abs(b))

lcm(a, b) == IF a = 0 \/ b = 0 THEN 0 ELSE (Abs(a) * Abs(b)) \div gcd(a, b)

RECURSIVE lcmSet(_)
lcmSet(S) ==
    IF S = {} THEN 1
    ELSE LET d == CHOOSE e \in S : TRUE IN lcm(d, lcmSet(S \ {d}))

RECURSIVE MinSet(_)
MinSet(S) ==
    LET d == CHOOSE e \in S : TRUE
    IN IF S = {d} THEN d ELSE Min2(d, MinSet(S \ {d}))

(***************************************************************************)
(* The rational field QQ.                                                  *)
(***************************************************************************)
Rat(n, d) ==
    LET g == gcd(n, d)
        s == IF d < 0 THEN -1 ELSE 1
    IN <<(s * n) \div g, (s * d) \div g>>

RZero == <<0, 1>>

ROne == <<1, 1>>

RInt(n) == <<n, 1>>

RAdd(a, b) ==
    IF a[2] = b[2] THEN Rat(a[1] + b[1], a[2])
    ELSE
    LET g == gcd(a[2], b[2])
    IN Rat(a[1] * (b[2] \div g) + b[1] * (a[2] \div g), (a[2] \div g) * b[2])

RNeg(a) == <<-a[1], a[2]>>

RSub(a, b) == RAdd(a, RNeg(b))

RMul(a, b) ==
    IF a[2] = 1 /\ b[2] = 1 THEN <<a[1] * b[1], 1>>
    ELSE
    LET g1 == gcd(a[1], b[2])
        g2 == gcd(b[1], a[2])
    IN Rat((a[1] \div g1) * (b[1] \div g2), (a[2] \div g2) * (b[2] \div g1))

RInv(a) == Rat(a[2], a[1])

RDiv(a, b) == RMul(a, RInv(b))

RLess(a, b) == a[1] * b[2] < b[1] * a[2]

RMax(a, b) == IF RLess(a, b) THEN b ELSE a

denominator(a) == a[2]

numerator(a) == a[1]

RECURSIVE RPow(_, _)
RPow(a, k) == IF k = 0 THEN ROne ELSE RMul(a, RPow(a, k - 1))

RECURSIVE RSumSeq(_)
RSumSeq(s) ==
    IF s = <<>> THEN RZero
    ELSE IF Len(s) = 1 THEN s[1]
    ELSE LET h == Len(s) \div 2
         IN RAdd(RSumSeq(SubSeq(s, 1, h)), RSumSeq(SubSeq(s, h + 1, Len(s))))

\* membership of a field element in a reference set ("ZZ" or "QQ")
InReference(a, reference) ==
    IF reference = "ZZ" THEN denominator(a) = 1 ELSE TRUE

(***************************************************************************)
(* The exponent ring K[x]: dense polynomials.                              *)
(***************************************************************************)
RECURSIVE Trim(_)
Trim(s) ==
    IF s = <<>> THEN <<>>
    ELSE IF s[Len(s)] = RZero THEN Trim(SubSeq(s, 1, Len(s) - 1)) ELSE s

PZero == <<>>

Coef(p, i) == IF i >= 0 /\ i + 1 <= Len(p) THEN p[i + 1] ELSE RZero

PConst(c) == Trim(<<c>>)

PIsZero(p) == p = <<>>

degree(p) == Len(p) - 1

exponents(p) == {i - 1 : i \in {j \in DOMAIN p : p[j] # RZero}}

PAdd(p, q) ==
    Trim([i \in 1..Max2(Len(p), Len(q)) |-> RAdd(Coef(p, i - 1), Coef(q, i - 1))])

PScale(c, p) == Trim([i \in 1..Len(p) |-> RMul(c, p[i])])

PNeg(p) == [i \in 1..Len(p) |-> RNeg(p[i])]

PSub(p, q) == PAdd(p, PNeg(q))

PMulLen(p, q) == IF p = <<>> \/ q = <<>> THEN 0 ELSE Len(p) + Len(q) - 1

PMul(p, q) ==
    Trim([k \in 1..PMulLen(p, q) |->
            RSumSeq([i \in 1..k |-> RMul(Coef(p, i - 1), Coef(q, k - i))])])

\* p(x^quo)
PCompose(p, quo) ==
    IF p = <<>> THEN <<>>
    ELSE [i \in 1..((Len(p) - 1) * quo + 1) |->
            IF (i - 1) % quo = 0 THEN p[((i - 1) \div quo) + 1] ELSE RZero]

\* the polynomial built from the dictionary {e/quo : p[e]} over the exponents
\* e of p
PDeflate(p, quo) ==
    IF p = <<>> THEN <<>>
    ELSE Trim([i \in 1..(((Len(p) - 1) \div quo) + 1) |-> Coef(p, (i - 1) * quo)])

\* x^k * p
PShiftUp(p, k) ==
    IF p = <<>> THEN <<>>
    ELSE [i \in 1..(Len(p) + k) |-> IF i <= k THEN RZero ELSE p[i - k]]

\* the coefficients of x^k, x^(k+1), ... of p
PShiftDown(p, k) ==
    IF Len(p) <= k THEN <<>> ELSE [i \in 1..(Len(p) - k) |-> p[i + k]]

PTruncate(p, n) == Trim(SubSeq(p, 1, Min2(Len(p), n)))

\* the coefficient list read backwards
PReverse(p) == Trim([i \in 1..Len(p) |-> p[Len(p) + 1 - i]])

(***************************************************************************)
(* The truncated power series ring K[[x]].  A series carries its own       *)
(* precision; the value infinity marks an exact series.                    *)
(***************************************************************************)
PrAdd(p, k) == IF p >= infinity \/ k >= infinity THEN infinity ELSE p + k

PrSub(p, k) == IF p >= infinity THEN infinity ELSE p - k

PrMul(p, k) == IF p >= infinity THEN infinity ELSE p * k

PS(p, prec) == [co |-> PTruncate(p, prec), pr |-> prec]

PSZero == [co |-> <<>>, pr |-> infinity]

PSOne == [co |-> <<ROne>>, pr |-> infinity]

PSIsZero(f) == f.co = <<>>

valuation(f) == IF f.co = <<>> THEN f.pr ELSE MinSet(exponents(f.co))

PSAdd(f, g) == PS(PAdd(f.co, g.co), Min2(f.pr, g.pr))

PSNeg(f) == [co |-> PNeg(f.co), pr |-> f.pr]

\* precision of a product: min(prec(f) + val(g), prec(g) + val(f))
PSMulPrec(f, g) ==
    IF f.pr >= infinity /\ g.pr >= infinity THEN infinity
    ELSE IF f.pr >= infinity THEN PrAdd(g.pr, valuation(f))
    ELSE IF g.pr >= infinity THEN PrAdd(f.pr, valuation(g))
    ELSE Min2(PrAdd(g.pr, valuation(f)), PrAdd(f.pr, valuation(g)))

PSMul(f, g) == PS(PMul(f.co, g.co), PSMulPrec(f, g))

PSScale(c, f) == [co |-> PScale(c, f.co), pr |-> f.pr]

\* f(x^quo)
PSCompose(f, quo) == [co |-> PCompose(f.co, quo), pr |-> PrMul(f.pr, quo)]

\* f // x^k
PSShiftDown(f, k) == [co |-> PShiftDown(f.co, k), pr |-> PrSub(f.pr, k)]

\* x^k * f, x the exact generator
PSShiftUp(f, k) == [co |-> PShiftUp(f.co, k), pr |-> PrAdd(f.pr, k)]

\* the series rebuilt from the dictionary {int(e/quo) : f[e]}: the rebuilt
\* series is exact
PSDeflate(f, quo) == [co |-> PDeflate(f.co, quo), pr |-> infinity]

\* derivative with respect to x
PSDerivative(f) ==
    [co |-> Trim([i \in 1..(Len(f.co) - 1) |-> RMul(RInt(i), f.co[i + 1])]),
     pr |-> IF f.pr >= infinity THEN infinity ELSE Max2(f.pr - 1, 0)]

\* equality of approximate series: agreement up to the smaller precision
PSEq(f, g) ==
    LET n == Min2(f.pr, g.pr)
    IN PTruncate(f.co, n) = PTruncate(g.co, n)

RECURSIVE PSSumSeq(_)
PSSumSeq(s) == IF Len(s) = 1 THEN s[1] ELSE PSAdd(s[1], PSSumSeq(Tail(s)))

(***************************************************************************)
(* The tail ring K[[x]][LOG].                                              *)
(***************************************************************************)
RECURSIVE TTrim(_)
TTrim(s) ==
    IF s = <<>> THEN <<>>
    ELSE IF PSIsZero(s[Len(s)]) THEN TTrim(SubSeq(s, 1, Len(s) - 1)) ELSE s

TZero == <<>>

TOne == <<PSOne>>

TIsZero(T) == T = <<>>

TCoef(T, j) == IF j >= 0 /\ j + 1 <= Len(T) THEN T[j + 1] ELSE PSZero

\* the nonzero coefficients
coefficients(T) == {T[j] : j \in {k \in DOMAIN T : ~PSIsZero(T[k])}}

\* all the coefficients, zero ones included
coeffs(T) == {T[j] : j \in DOMAIN T}

TDegree(T) == Len(T) - 1

\* F applied to the nonzero coefficients; the other ones become exact zeros
map_coefficients(F(_), T) ==
    TTrim([j \in 1..Len(T) |-> IF PSIsZero(T[j]) THEN PSZero ELSE F(T[j])])

TAdd(S, T) ==
    TTrim([j \in 1..Max2(Len(S), Len(T)) |-> PSAdd(TCoef(S, j - 1), TCoef(T, j - 1))])

TNeg(T) == [j \in 1..Len(T) |-> PSNeg(T[j])]

TMulLen(S, T) == IF S = <<>> \/ T = <<>> THEN 0 ELSE Len(S) + Len(T) - 1

TMul(S, T) ==
    TTrim([k \in 1..TMulLen(S, T) |->
            PSSumSeq([i \in 1..k |-> PSMul(TCoef(S, i - 1), TCoef(T, k - i))])])

\* derivative with respect to LOG
TDerivative(T) ==
    TTrim([j \in 1..(Len(T) - 1) |-> PSScale(RInt(j), T[j + 1])])

\* a polynomial of the exponent ring taken into the tail ring
TFromPoly(p) == TTrim(<<[co |-> p, pr |-> infinity]>>)

TEq(S, T) ==
    /\ Len(S) = Len(T)
    /\ \A j \in DOMAIN S : PSEq(S[j], T[j])

TIsOne(T) == Len(T) = 1 /\ PSEq(T[1], PSOne)

\* the union of the exponents of the given power series, each divided by ram
DenominatorsOver(cs, ram) ==
    UNION {{denominator(Rat(e, ram)) : e \in exponents(c.co)} : c \in cs}

(***************************************************************************)
(* Inversion in the tail ring.                                             *)
(***************************************************************************)
\* the first n coefficients of 1/p for a polynomial p with p[0] # 0
RECURSIVE PInvCoeffs(_, _)
PInvCoeffs(p, n) ==
    IF n = 0 THEN <<>>
    ELSE IF n = 1 THEN <<RInv(p[1])>>
    ELSE LET b == PInvCoeffs(p, n - 1)
             t == RSumSeq([i \in 1..(n - 1) |-> RMul(Coef(p, i), b[n - i])])
         IN Append(b, RNeg(RMul(RInv(p[1]), t)))

\* ~f for a power series f of valuation 0
PSInv(f) ==
    IF f.pr >= infinity /\ degree(f.co) = 0 THEN [co |-> <<RInv(f.co[1])>>, pr |-> infinity]
    ELSE LET prec == IF f.pr >= infinity THEN DefaultPrec ELSE f.pr
         IN [co |-> Trim(PInvCoeffs(f.co, prec)), pr |-> prec]

\* ~T converted back into the tail ring: a polynomial of positive degree in
\* LOG has no inverse in the ring and the conversion is refused
TInv(T) ==
    IF TDegree(T) > 0 THEN [st |-> "TypeError", val |-> <<>>]
    ELSE IF valuation(T[1]) # 0 THEN [st |-> "ArithmeticError", val |-> <<>>]
    ELSE [st |-> "ok", val |-> <<PSInv(T[1])>>]

(***************************************************************************)
(* Results of calls: a returned value or a raised exception.               *)
(***************************************************************************)
NoVal == [none |-> TRUE]

Returned(v) == [st |-> "ok", val |-> v]

Raised(e) == [st |-> e, val |-> NoVal]

(***************************************************************************)
(* ContinuousGeneralizedSeries.                                            *)
(***************************************************************************)
CSeries(ramification, exp, tail) ==
    [ramification |-> ramification, exp |-> exp, tail |-> tail]

\* lines 369-372: the least ramification that represents exp and p
C_new_ram(exp, p, ramification) ==
    LET r0 == lcmSet({denominator(Rat(e, ramification)) : e \in exponents(exp)})
    IN IF r0 < ramification
       THEN lcmSet({r0} \cup DenominatorsOver(coefficients(p), ramification))
       ELSE r0

\* lines 374-390: exp and p rewritten for the ramification new_ram
C_rescale(exp, p, ramification, new_ram) ==
    IF new_ram # ramification
    THEN LET quo == ramification \div new_ram
         IN CSeries(new_ram, PDeflate(exp, quo),
                    TTrim([j \in 1..Len(p) |-> PSDeflate(p[j], quo)]))
    ELSE CSeries(ramification, exp, p)

\* the zero tail is recognized before the ramification is looked at
ContinuousGeneralizedSeries_zero_first(tail, exp, ramification) ==
    IF TIsZero(tail) THEN Returned(CSeries(1, PZero, TZero))
    ELSE IF ramification <= 0 THEN Raised("ValueError")
    ELSE LET v == MinSet({valuation(c) : c \in coefficients(tail)})
             exp1 == IF v # 0 THEN PAdd(exp, PConst(Rat(v, ramification))) ELSE exp
             p1 == IF v # 0
                   THEN map_coefficients(LAMBDA q : PSShiftDown(q, v), tail)
                   ELSE tail
             new_ram == C_new_ram(exp1, p1, ramification)
         IN Returned(C_rescale(exp1, p1, ramification, new_ram))

ContinuousGeneralizedSeries(tail, exp, ramification) ==
    IF ramification <= 0 THEN Raised("ValueError")
    ELSE IF TIsZero(tail) THEN Returned(CSeries(1, PZero, TZero))
    ELSE LET v == MinSet({valuation(c) : c \in coefficients(tail)})
             exp1 == IF v # 0 THEN PAdd(exp, PConst(Rat(v, ramification))) ELSE exp
             p1 == IF v # 0
                   THEN map_coefficients(LAMBDA q : PSShiftDown(q, v), tail)
                   ELSE tail
             new_ram == C_new_ram(exp1, p1, ramification)
         IN Returned(C_rescale(exp1, p1, ramification, new_ram))

C_is_zero(A) == TIsZero(A.tail)

C_ramification(A) == A.ramification

C_inflate(A, s) ==
    IF s = A.ramification THEN [st |-> "ok", exp |-> A.exp, tail |-> A.tail]
    ELSE IF s <= 0 \/ s % A.ramification # 0
    THEN [st |-> "ValueError", exp |-> PZero, tail |-> TZero]
    ELSE LET quo == s \div A.ramification
         IN [st |-> "ok", exp |-> PCompose(A.exp, quo),
             tail |-> map_coefficients(LAMBDA c : PSCompose(c, quo), A.tail)]

C_eq(A, B) ==
    /\ A.ramification = B.ramification
    /\ A.exp = B.exp
    /\ TEq(A.tail, B.tail)

\* the other operand is multiplied in as it is stored, at self's ramification
C_mul_own_ramification(A, B) ==
    ContinuousGeneralizedSeries(TMul(A.tail, B.tail), PAdd(A.exp, B.exp), A.ramification)

C_mul(A, B) ==
    LET s == lcm(A.ramification, B.ramification)
        a == C_inflate(A, s)
        b == C_inflate(B, s)
    IN IF a.st # "ok" \/ b.st # "ok" THEN Raised("ValueError")
       ELSE ContinuousGeneralizedSeries(TMul(a.tail, b.tail), PAdd(a.exp, b.exp), s)

C_neg(A) == ContinuousGeneralizedSeries(TNeg(A.tail), A.exp, A.ramification)

\* the exponential parts are compared as they are stored, without inflating
C_similar_not_inflated(A, B, reference) ==
    LET s == lcm(A.ramification, B.ramification)
        d == PScale(RInt(s), PSub(A.exp, B.exp))
    IN degree(d) <= 0 /\ InReference(Coef(d, 0), reference)

\* s*(Ae - Be) in reference
C_similar(A, B, reference) ==
    LET s == lcm(A.ramification, B.ramification)
        d == PScale(RInt(s), PSub(C_inflate(A, s).exp, C_inflate(B, s).exp))
    IN degree(d) <= 0 /\ InReference(Coef(d, 0), reference)

C_add(A, B) ==
    IF C_is_zero(A) THEN Returned(B)
    ELSE IF C_is_zero(B) THEN Returned(A)
    ELSE IF ~C_similar(A, B, "ZZ") THEN Raised("ValueError")
    ELSE LET s == lcm(A.ramification, B.ramification)
             a == C_inflate(A, s)
             b == C_inflate(B, s)
             exp_diff == numerator(Coef(PScale(RInt(s), PSub(a.exp, b.exp)), 0))
             hi == IF exp_diff < 0 THEN b ELSE a
             lo == IF exp_diff < 0 THEN a ELSE b
         IN ContinuousGeneralizedSeries(
                TAdd(map_coefficients(LAMBDA c : PSShiftUp(c, Abs(exp_diff)), hi.tail),
                     lo.tail),
                lo.exp, s)

\* the body evaluates the comparison and drops it: the call returns None
C_has_logarithms(A) == "None"

Truth(v) == v = "True"

C_invert(A) ==
    IF C_is_zero(A) THEN Raised("ZeroDivisionError")
    ELSE IF Truth(C_has_logarithms(A)) THEN Raised("ValueError")
    ELSE LET t == TInv(A.tail)
         IN IF t.st # "ok" THEN Raised(t.st)
            ELSE ContinuousGeneralizedSeries(t.val, PNeg(A.exp), A.ramification)

C_exponential_part(A) == ContinuousGeneralizedSeries(TOne, A.exp, A.ramification)

C_has_exponential_part(A) == ~C_is_zero(C_exponential_part(A).val)

C_is_one(A) == ~C_has_exponential_part(A) /\ TIsOne(A.tail)

\* the exponential part is handed on together with the tail
C_tail_keeps_exp(A) == ContinuousGeneralizedSeries(A.tail, A.exp, A.ramification)

C_tail(A) == ContinuousGeneralizedSeries(A.tail, PZero, A.ramification)

\* the exponential part of the first part is multiplied by x
C_derivative_part_1_shifted(A) ==
    ContinuousGeneralizedSeries(
        TMul(TFromPoly(PReverse(PShiftUp(A.exp, A.ramification))), A.tail),
        PSub(PShiftUp(A.exp, 1), PConst(RAdd(Rat(degree(A.exp), A.ramification), ROne))),
        A.ramification)

\* lines 890-893
C_derivative_part_1(A) ==
    ContinuousGeneralizedSeries(
        TMul(TFromPoly(PReverse(PShiftUp(A.exp, A.ramification))), A.tail),
        PSub(A.exp, PConst(RAdd(Rat(degree(A.exp), A.ramification), ROne))),
        A.ramification)

\* the second part is handed on as it is computed, without the constructor
C_derivative_part_2_raw(A) ==
    Returned(CSeries(A.ramification, PSub(A.exp, PConst(ROne)),
                     TAdd(map_coefficients(
                              LAMBDA p : PSScale(Rat(1, A.ramification),
                                                 PSShiftUp(PSDerivative(p), 1)),
                              A.tail),
                          TDerivative(A.tail))))

\* lines 895-898
C_derivative_part_2(A) ==
    ContinuousGeneralizedSeries(
        TAdd(map_coefficients(
                 LAMBDA p : PSScale(Rat(1, A.ramification),
                                    PSShiftUp(PSDerivative(p), 1)),
                 A.tail),
             TDerivative(A.tail)),
        PSub(A.exp, PConst(ROne)),
        A.ramification)

C_derivative(A) == C_add(C_derivative_part_1(A).val, C_derivative_part_2(A).val)

\* an argument e of substitute: a rational number q, or an object that is
\* not in QQ
Rational(q) == [rational |-> TRUE, q |-> q]

NotRational == [rational |-> FALSE, q |-> RZero]

\* the guard rejects what is not rational and lets every rational pass
C_substitute_sign_unchecked(A, e) ==
    IF ~e.rational THEN Raised("TypeError")
    ELSE IF e.q = ROne \/ ~RLess(RZero, e.q) THEN Returned(A)
    ELSE LET a == numerator(e.q)
             b == denominator(e.q)
         IN ContinuousGeneralizedSeries(
                map_coefficients(
                    LAMBDA p : PSCompose(p, a),
                    [j \in 1..Len(A.tail) |-> PSScale(RPow(e.q, j - 1), A.tail[j])]),
                PScale(e.q, PCompose(A.exp, a)),
                b * A.ramification)

\* numerator and denominator of e change places
C_substitute_swapped(A, e) ==
    IF ~e.rational \/ ~RLess(RZero, e.q) THEN Raised("TypeError")
    ELSE IF e.q = ROne THEN Returned(A)
    ELSE LET a == denominator(e.q)
             b == numerator(e.q)
         IN ContinuousGeneralizedSeries(
                map_coefficients(
                    LAMBDA p : PSCompose(p, a),
                    [j \in 1..Len(A.tail) |-> PSScale(RPow(e.q, j - 1), A.tail[j])]),
                PScale(e.q, PCompose(A.exp, a)),
                b * A.ramification)

\* the exponent e is added to the exponential part
C_substitute_exp_offset(A, e) ==
    IF ~e.rational \/ ~RLess(RZero, e.q) THEN Raised("TypeError")
    ELSE IF e.q = ROne THEN Returned(A)
    ELSE LET a == numerator(e.q)
             b == denominator(e.q)
         IN ContinuousGeneralizedSeries(
                map_coefficients(
                    LAMBDA p : PSCompose(p, a),
                    [j \in 1..Len(A.tail) |-> PSScale(RPow(e.q, j - 1), A.tail[j])]),
                PAdd(PScale(e.q, PCompose(A.exp, a)), PConst(e.q)),
                b * A.ramification)

C_substitute(A, e) ==
    IF ~e.rational \/ ~RLess(RZero, e.q) THEN Raised("TypeError")
    ELSE IF e.q = ROne THEN Returned(A)
    ELSE LET a == numerator(e.q)
             b == denominator(e.q)
         IN ContinuousGeneralizedSeries(
                map_coefficients(
                    LAMBDA p : PSCompose(p, a),
                    [j \in 1..Len(A.tail) |-> PSScale(RPow(e.q, j - 1), A.tail[j])]),
                PScale(e.q, PCompose(A.exp, a)),
                b * A.ramification)

(***************************************************************************)
(* DiscreteGeneralizedSeries.                                              *)
(***************************************************************************)
DSeries(gamma, ramification, rho, subexp, alpha, expansion) ==
    [gamma |-> gamma, ramification |-> ramification, rho |-> rho,
     subexp |-> subexp, alpha |-> alpha, expansion |-> expansion]

\* lines 988-992: the least ramification that represents gamma, subexp and
\* expansion
D_new_ram(gamma, subexp, expansion, ram) ==
    lcmSet({denominator(gamma)}
           \cup {denominator(Rat(e, ram)) : e \in exponents(subexp)}
           \cup DenominatorsOver(coefficients(expansion), ram))

\* lines 994-1009: subexp and expansion rewritten for the ramification
\* new_ram; the ramification field is left as it was assigned in line 955
D_rescale(gamma, ram, rho, subexp, alpha, expansion, new_ram) ==
    IF new_ram < ram
    THEN LET quo == ram \div new_ram
         IN DSeries(gamma, ram, rho, PDeflate(subexp, quo), alpha,
                    TTrim([j \in 1..Len(expansion) |-> PSDeflate(expansion[j], quo)]))
    ELSE DSeries(gamma, ram, rho, subexp, alpha, expansion)

\* the fields handed in are kept when the expansion is zero
DiscreteGeneralizedSeries_zero_kept(data) ==
    IF data.rho = RZero \/ data.ram <= 0 THEN Raised("ValueError")
    ELSE Returned(DSeries(data.gamma, data.ram, data.rho, data.subexp, data.alpha,
                          data.expansion))

\* data = [gamma, ram, rho, subexp, alpha, expansion]
DiscreteGeneralizedSeries(data) ==
    IF data.rho = RZero \/ data.ram <= 0 THEN Raised("ValueError")
    ELSE IF TIsZero(data.expansion)
    THEN Returned(DSeries(RZero, 1, RZero, PZero, RZero, TZero))
    ELSE LET diff == MinSet({valuation(c) : c \in coeffs(data.expansion)})
             alpha1 == IF diff # 0 THEN RSub(data.alpha, Rat(diff, data.ram))
                       ELSE data.alpha
             e1 == IF diff # 0
                   THEN map_coefficients(LAMBDA q : PSShiftDown(q, diff), data.expansion)
                   ELSE data.expansion
             new_ram == D_new_ram(data.gamma, data.subexp, e1, data.ram)
         IN Returned(D_rescale(data.gamma, data.ram, data.rho, data.subexp,
                               alpha1, e1, new_ram))

Data(gamma, ram, rho, subexp, alpha, expansion) ==
    [gamma |-> gamma, ram |-> ram, rho |-> rho, subexp |-> subexp,
     alpha |-> alpha, expansion |-> expansion]

\* lines 943-950: a polynomial p of the exponent ring given instead of a list
D_from_polynomial(p) ==
    IF PIsZero(p)
    THEN DiscreteGeneralizedSeries(Data(RZero, 1, ROne, PZero, RZero, TZero))
    ELSE DiscreteGeneralizedSeries(
             Data(RZero, 1, ROne, PZero, RInt(degree(p)),
                  <<[co |-> Trim([i \in 1..Len(p) |-> p[Len(p) + 1 - i]]),
                     pr |-> infinity]>>))

\* an item of a list of expansion coefficients: a list of field elements
\* or a power series
ListEntry(s) == [list |-> TRUE, co |-> s, pr |-> Len(s)]

SeriesEntry(f) == [list |-> FALSE, co |-> f.co, pr |-> f.pr]

\* lines 965-968: every item that is a list is replaced, in the list the
\* caller handed in, by the power series PS(item, len(item))
D_convert_list(expansion) ==
    [i \in 1..Len(expansion) |->
        IF expansion[i].list
        THEN SeriesEntry(PS(expansion[i].co, Len(expansion[i].co)))
        ELSE expansion[i]]

\* line 970: the list taken into the tail ring
D_list_to_tail(expansion) ==
    TTrim([i \in 1..Len(expansion) |->
              [co |-> expansion[i].co, pr |-> expansion[i].pr]])

\* the constructor called with data whose last item is a list: the result
\* of the call and the list as the call leaves it
DiscreteGeneralizedSeries_from_list(data) ==
    IF data.rho = RZero \/ data.ram <= 0
    THEN [result |-> Raised("ValueError"), expansion |-> data.expansion]
    ELSE LET converted == D_convert_list(data.expansion)
         IN [result |-> DiscreteGeneralizedSeries(
                            Data(data.gamma, data.ram, data.rho, data.subexp,
                                 data.alpha, D_list_to_tail(converted))),
             expansion |-> converted]

D_is_zero(A) == TIsZero(A.expansion)

D_ramification(A) == A.ramification

D_inflate(A, s) ==
    LET quo == s \div A.ramification
    IN IF quo = 1 THEN [subexp |-> A.subexp, expansion |-> A.expansion]
       ELSE [subexp |-> PCompose(A.subexp, quo),
             expansion |-> map_coefficients(LAMBDA c : PSCompose(c, quo), A.expansion)]

D_eq(A, B) ==
    /\ A.gamma = B.gamma
    /\ A.ramification = B.ramification
    /\ A.rho = B.rho
    /\ A.subexp = B.subexp
    /\ A.alpha = B.alpha
    /\ TEq(A.expansion, B.expansion)

D_mul(A, B) ==
    LET ram == lcm(A.ramification, B.ramification)
        a == D_inflate(A, ram)
        b == D_inflate(B, ram)
    IN DiscreteGeneralizedSeries(
           Data(RAdd(A.gamma, B.gamma), ram, RMul(A.rho, B.rho),
                PAdd(a.subexp, b.subexp), RAdd(A.alpha, B.alpha),
                TMul(a.expansion, b.expansion)))

D_neg(A) ==
    DiscreteGeneralizedSeries(
        Data(A.gamma, A.ramification, A.rho, A.subexp, A.alpha, TNeg(A.expansion)))

\* the difference of the leading exponents is tested for a nonnegative
\* member of the reference set
D_similar_one_sided(A, B, reference) ==
    /\ A.gamma = B.gamma
    /\ A.rho = B.rho
    /\ A.ramification = B.ramification
    /\ A.subexp = B.subexp
    /\ InReference(RSub(A.alpha, B.alpha), reference)
    /\ ~RLess(A.alpha, B.alpha)

D_similar(A, B, reference) ==
    /\ A.gamma = B.gamma
    /\ A.rho = B.rho
    /\ A.ramification = B.ramification
    /\ A.subexp = B.subexp
    /\ InReference(RSub(A.alpha, B.alpha), reference)

\* the similarity test is left out
D_add_unchecked(A, B) ==
    IF D_is_zero(A) THEN Returned(B)
    ELSE IF D_is_zero(B) THEN Returned(A)
    ELSE DiscreteGeneralizedSeries(
             Data(A.gamma, A.ramification, A.rho, A.subexp, RMax(A.alpha, B.alpha),
                  TAdd(A.expansion, B.expansion)))

D_add(A, B) ==
    IF D_is_zero(A) THEN Returned(B)
    ELSE IF D_is_zero(B) THEN Returned(A)
    ELSE IF ~D_similar(A, B, "ZZ") THEN Raised("ValueError")
    ELSE LET ram == lcm(A.ramification, B.ramification)
             a == D_inflate(A, ram)
             b == D_inflate(B, ram)
             alpha == RMax(A.alpha, B.alpha)
             up(al) == ram * numerator(RSub(alpha, al))
             Aexp == IF RLess(A.alpha, alpha)
                     THEN map_coefficients(LAMBDA c : PSShiftUp(c, up(A.alpha)), a.expansion)
                     ELSE a.expansion
             Bexp == IF ~RLess(A.alpha, alpha) /\ RLess(B.alpha, alpha)
                     THEN map_coefficients(LAMBDA c : PSShiftUp(c, up(B.alpha)), b.expansion)
                     ELSE b.expansion
         IN DiscreteGeneralizedSeries(
                Data(A.gamma, A.ramification, A.rho, a.subexp, alpha, TAdd(Aexp, Bexp)))

D_has_logarithms(A) == IF TDegree(A.expansion) > 0 THEN "True" ELSE "False"

D_invert(A) ==
    IF D_is_zero(A) THEN Raised("ZeroDivisionError")
    ELSE IF Truth(D_has_logarithms(A)) THEN Raised("ValueError")
    ELSE LET t == TInv(A.expansion)
         IN IF t.st # "ok" THEN Raised(t.st)
            ELSE DiscreteGeneralizedSeries(
                     Data(RNeg(A.gamma), A.ramification, RInv(A.rho), PNeg(A.subexp),
                          RNeg(A.alpha), t.val))

D_is_one(A) ==
    /\ A.gamma = RZero
    /\ A.rho = ROne
    /\ PIsZero(A.subexp)
    /\ A.alpha = RZero
    /\ TIsOne(A.expansion)

(***************************************************************************)
(* The shift quotient of a discrete series: _binomial, _super_expansion,   *)
(* _sub_expansion and _generalized_series_shift_quotient.  The polynomials *)
(* are polynomials of the exponent ring.                                   *)
(***************************************************************************)
RECURSIVE Factorial(_)
Factorial(k) == IF k <= 0 THEN 1 ELSE k * Factorial(k - 1)

\* the integer part of a rational number, as int() of the host takes it
Truncate(q) ==
    IF numerator(q) >= 0 THEN numerator(q) \div denominator(q)
    ELSE -((-numerator(q)) \div denominator(q))

RECURSIVE binomial(_, _)
binomial(lam, j) ==
    IF j = 0 THEN ROne
    ELSE RMul(RDiv(lam, RInt(j)), binomial(RSub(lam, ROne), j - 1))

\* c * x^e
PMonomial(c, e) == PShiftUp(PConst(c), e)

RECURSIVE PSumSeq(_)
PSumSeq(s) == IF s = <<>> THEN PZero ELSE PAdd(s[1], PSumSeq(Tail(s)))

\* padded_list(n), reversed, as a polynomial
PPaddedReversed(p, n) == Trim([i \in 1..n |-> Coef(p, n - i)])

\* k rounds of: inner_pow = (inner_pow * inner) % x^md;
\*              outer += inner_pow / k!
\* (a round that starts from the power 0 leaves both as they are)
RECURSIVE ExpLoop(_, _, _)
ExpLoop(inner, md, k) ==
    IF k = 0 THEN [pow |-> PConst(ROne), outer |-> PConst(ROne)]
    ELSE LET prev == ExpLoop(inner, md, k - 1)
             pw == PTruncate(PMul(prev.pow, inner), md)
         IN IF PIsZero(prev.pow) THEN prev
            ELSE [pow |-> pw,
                  outer |-> PAdd(prev.outer, PScale(Rat(1, Factorial(k)), pw))]

super_expansion(gamma, i, prec) ==
    LET inner == PScale(RMul(gamma, RInt(i)),
                        PSumSeq([l \in 1..prec |->
                                    PMonomial(RDiv(RPow(RInt(-i), l), RInt(l + 1)), l)]))
    IN PPaddedReversed(ExpLoop(inner, prec + 1, prec).outer, prec + 1)

\* the product over l = 1..n of the truncated exponentials of the inner sums
RECURSIVE SubProd(_, _, _, _, _)
SubProd(cs, v, i, prec, n) ==
    IF n = 0 THEN PConst(ROne)
    ELSE LET inner == PScale(cs[n],
                             PSumSeq([j \in 1..prec |->
                                         PMonomial(RMul(binomial(Rat(n, v), j),
                                                        RPow(RInt(i), j)),
                                                   v * j - n)]))
             outer == ExpLoop(inner, v * prec + 1, v * prec).outer
         IN PTruncate(PMul(SubProd(cs, v, i, prec, n - 1), outer), v * prec + 1)

\* subexp = (coeffs, m)
sub_expansion(subexp, i, prec) ==
    LET v == subexp.m * (Len(subexp.c) + 1)
    IN PPaddedReversed(SubProd(subexp.c, v, i, prec, Len(subexp.c)), v * prec + 1)

\* the argument subexp: None, or the pair (c, m)
NoSubexp == [given |-> FALSE, c |-> <<>>, m |-> 1]

Subexp(c, m) == [given |-> TRUE, c |-> c, m |-> m]

Polynomial(p) == [poly |-> p]

\* lines 1402-1415
Q_gamma_part(prec, shift, gamma) ==
    IF gamma # RZero
    THEN LET v == denominator(gamma)
             top == RAdd(RInt(prec), RMul(RInt(shift), gamma))
             cert == PSumSeq([k1 \in 1..Truncate(RAdd(top, ROne)) |->
                        PMonomial(RMul(binomial(RMul(RInt(shift), gamma), k1 - 1),
                                       RPow(RInt(shift), k1 - 1)),
                                  numerator(RMul(RInt(v), RSub(top, RInt(k1 - 1)))))])
         IN PShiftDown(PMul(cert, PCompose(super_expansion(gamma, shift, prec), v)),
                       v * prec)
    ELSE PMonomial(ROne, prec)

\* lines 1417-1418
Q_rho_part(cert, shift, rho) ==
    IF rho # ROne THEN PScale(RPow(rho, shift), cert) ELSE cert

\* lines 1420-1421
Q_subexp_part(cert, ram, prec, shift, subexp) ==
    IF subexp.given /\ \E k \in DOMAIN subexp.c : subexp.c[k] # RZero
    THEN PShiftDown(PMul(cert, sub_expansion(subexp, shift, prec)), ram * prec)
    ELSE cert

\* lines 1423-1424
Q_alpha_part(cert, ram, prec, shift, alpha) ==
    IF alpha # RZero
    THEN PShiftDown(
             PMul(cert,
                  PSumSeq([k1 \in 1..(prec + 1) |->
                              PMonomial(RMul(binomial(alpha, k1 - 1),
                                             RPow(RInt(shift), k1 - 1)),
                                        ram * (prec - (k1 - 1)))])),
             ram * prec)
    ELSE cert

\* lines 1392-1395
Q_ram(gamma, subexp) ==
    IF subexp.given THEN denominator(gamma) * subexp.m ELSE denominator(gamma)

\* lines 1402-1426: the certificate of a positive shift
Q_certificate(prec, shift, gamma, rho, subexp, alpha) ==
    Polynomial(
        Q_alpha_part(
            Q_subexp_part(
                Q_rho_part(Q_gamma_part(prec, shift, gamma), shift, rho),
                Q_ram(gamma, subexp), prec, shift, subexp),
            Q_ram(gamma, subexp), prec, shift, alpha))

\* the trivial case answers at the scale of ramification 1
generalized_series_shift_quotient_unscaled(prec, shift, gamma, rho, subexp, alpha) ==
    IF shift = 0 THEN Returned(Polynomial(PMonomial(ROne, prec)))
    ELSE IF shift < 0 THEN Raised("ValueError")
    ELSE IF gamma # RZero /\ RLess(RAdd(RInt(prec), RMul(RInt(shift), gamma)), RZero)
    THEN Raised("ValueError")
    ELSE Returned(Q_certificate(prec, shift, gamma, rho, subexp, alpha))

\* the precision is not compared with shift*gamma
generalized_series_shift_quotient_unchecked(prec, shift, gamma, rho, subexp, alpha) ==
    IF shift = 0
    THEN Returned(Polynomial(PMonomial(ROne, Q_ram(gamma, subexp) * prec)))
    ELSE IF shift < 0 THEN Raised("ValueError")
    ELSE Returned(Q_certificate(prec, shift, gamma, rho, subexp, alpha))

generalized_series_shift_quotient(prec, shift, gamma, rho, subexp, alpha) ==
    IF shift = 0
    THEN Returned(Polynomial(PMonomial(ROne, Q_ram(gamma, subexp) * prec)))
    ELSE IF shift < 0 THEN Raised("ValueError")
    ELSE IF gamma # RZero /\ RLess(RAdd(RInt(prec), RMul(RInt(shift), gamma)), RZero)
    THEN Raised("ValueError")
    ELSE Returned(Q_certificate(prec, shift, gamma, rho, subexp, alpha))

(***************************************************************************)
(* DiscreteGeneralizedSeries.shift.                                        *)
(***************************************************************************)
\* p(q) for polynomials p and q, from the coefficient of index k on
RECURSIVE PEvalFrom(_, _, _)
PEvalFrom(p, q, k) ==
    IF k > Len(p) THEN PZero
    ELSE PAdd(PConst(p[k]), PMul(q, PEvalFrom(p, q, k + 1)))

\* E(a) for E and a of the tail ring, by Horner's rule from the coefficient
\* of index j on
RECURSIVE THorner(_, _, _)
THorner(E, a, j) ==
    IF j >= Len(E) THEN TTrim(<<E[j]>>)
    ELSE TAdd(TMul(THorner(E, a, j + 1), a), TTrim(<<E[j]>>))

\* line 1291: the bound of the comprehension that collects the coefficients
\* of subexp
D_shift_upper(A) == Max2(degree(A.subexp), denominator(A.gamma))

\* line 1291: the comprehension runs over the name i and leaves its last
\* value in it, so the shift that the rest of the method uses is upper - 1
\* whenever the comprehension ran
D_shift_index(A, i) ==
    IF D_shift_upper(A) > 1 THEN D_shift_upper(A) - 1 ELSE i

\* line 1300
D_x_shifted(ram, i, prec) ==
    PShiftUp(PSumSeq([k1 \in 1..(prec + 1) |->
                         PMonomial(RMul(binomial(Rat(-1, ram), k1 - 1),
                                        RPow(RInt(i), k1 - 1)),
                                   ram * (k1 - 1))]),
             1)

\* line 1306
D_logx_shifted(ram, i, prec) ==
    PNeg(PSumSeq([k \in 1..prec |->
                     PMonomial(RDiv(RPow(RInt(-i), k), RInt(k)), ram * k)]))

\* lines 1299-1311, for an expansion of finite precision
D_shifted(A, i, prec, q) ==
    LET ram == A.ramification
        factor == PReverse(q)
        x_shifted == D_x_shifted(ram, i, prec)
        expansion == map_coefficients(
                         LAMBDA p : PS(PMul(factor, PEvalFrom(p.co, x_shifted, 1)), prec),
                         A.expansion)
        logx == <<[co |-> D_logx_shifted(ram, i, prec), pr |-> infinity], PSOne>>
    IN DiscreteGeneralizedSeries(
           Data(A.gamma, ram, A.rho, A.subexp, A.alpha,
                IF TIsZero(expansion) THEN TZero ELSE THorner(expansion, logx, 1)))

\* an exact expansion has the precision infinity, which the shift quotient
\* cannot take as an exponent or as the bound of a loop: the host raises
\* TypeError, after the test of the sign of the shift
D_shift(A, i) ==
    IF D_is_zero(A) THEN Returned(A)
    ELSE LET prec == MinSet({c.pr : c \in coefficients(A.expansion)})
             i1 == D_shift_index(A, i)
             subexp == Subexp([k \in 1..(D_shift_upper(A) - 1) |-> Coef(A.subexp, k)],
                              A.ramification \div denominator(A.gamma))
         IN IF prec >= infinity
            THEN IF i1 < 0 THEN Raised("ValueError") ELSE Raised("TypeError")
            ELSE LET q == generalized_series_shift_quotient(
                              prec, i1, A.gamma, A.rho, subexp, A.alpha)
                 IN IF q.st # "ok" THEN Raised(q.st)
                    ELSE D_shifted(A, i1, prec, q.val.poly)

(***************************************************************************)
(* Domains: GeneralizedSeriesMonoid_class and the factory                  *)
(* GeneralizedSeriesMonoid with the list of the parents made so far.       *)
(* A coefficient ring is a unique parent of the host: QQ, a number field   *)
(* given by the generators adjoined to QQ, or another ring.  A variable    *)
(* name is a sequence of characters.                                       *)
(***************************************************************************)
QQ == [ring |-> "QQ", gens |-> <<>>]

ZZ == [ring |-> "ZZ", gens |-> <<>>]

NumberField(base, name) == [ring |-> "NumberField", gens |-> Append(base.gens, name)]

is_NumberField(base) == base.ring \in {"QQ", "NumberField"}

\* x.find(t) >= 0
Find(x, t) ==
    \E k \in 1..(Len(x) - Len(t) + 1) : SubSeq(x, k, k + Len(t) - 1) = t

Monoid(base, x, type) == [base |-> base, var |-> x, type |-> type]

\* the test of the generator name is left out
GeneralizedSeriesMonoid_class_any_name(base, x, type) ==
    IF base # QQ /\ ~is_NumberField(base) THEN Raised("TypeError")
    ELSE IF type # "continuous" /\ type # "discrete" THEN Raised("ValueError")
    ELSE Returned(Monoid(base, x, type))

\* __init__
GeneralizedSeriesMonoid_class(base, x, type) ==
    IF base # QQ /\ ~is_NumberField(base) THEN Raised("TypeError")
    ELSE IF Find(x, <<"L", "O", "G">>) THEN Raised("ValueError")
    ELSE IF type # "continuous" /\ type # "discrete" THEN Raised("ValueError")
    ELSE Returned(Monoid(base, x, type))

\* __eq__
Monoid_eq(m, M) ==
    /\ m.type = M.type
    /\ m.base = M.base
    /\ m.var = M.var

\* a domain handed back to the caller: its place in the list of parents
Handle(h) == [handle |-> h]

\* the new parent is registered without a look at the list
GeneralizedSeriesMonoid_unregistered(parents, base, x, type) ==
    LET M == GeneralizedSeriesMonoid_class(base, x, type)
    IN IF M.st # "ok" THEN [parents |-> parents, result |-> Raised(M.st)]
       ELSE [parents |-> Append(parents, M.val),
             result |-> Returned(Handle(Len(parents) + 1))]

\* the factory: parents is _list_of_generalized_series_parents
GeneralizedSeriesMonoid(parents, base, x, type) ==
    LET M == GeneralizedSeriesMonoid_class(base, x, type)
    IN IF M.st # "ok" THEN [parents |-> parents, result |-> Raised(M.st)]
       ELSE IF \E h \in DOMAIN parents : Monoid_eq(parents[h], M.val)
       THEN [parents |-> parents,
             result |-> Returned(Handle(
                 MinSet({h \in DOMAIN parents : Monoid_eq(parents[h], M.val)})))]
       ELSE [parents |-> Append(parents, M.val),
             result |-> Returned(Handle(Len(parents) + 1))]

\* the argument ext of base_extend: an irreducible polynomial with the name
\* of its root, or a parent
Extension(name) == [parent |-> FALSE, name |-> name, ring |-> QQ]

ExtensionField(ring) == [parent |-> TRUE, name |-> "", ring |-> ring]

\* GeneralizedSeriesMonoid_class.base_extend of the domain parents[h]
base_extend(parents, h, ext) ==
    GeneralizedSeriesMonoid(
        parents,
        IF ext.parent THEN ext.ring ELSE NumberField(parents[h].base, ext.name),
        parents[h].var,
        parents[h].type)

(***************************************************************************)
(* Inputs of the sessions: the raw data handed to the constructors.        *)
(***************************************************************************)
IntPoly(s) == Trim([i \in 1..Len(s) |-> RInt(s[i])])

Exact(s) == [co |-> IntPoly(s), pr |-> infinity]

Approx(s, prec) == PS(IntPoly(s), prec)

\* 0, 1, 1+x, 1+x+x^2, x+x^2, 1+x^2, 1 + x*LOG, 1+x+O(x^2)
TailSeeds ==
    { TZero,
      <<Exact(<<1>>)>>,
      <<Exact(<<1, 1>>)>>,
      <<Exact(<<1, 1, 1>>)>>,
      <<Exact(<<0, 1, 1>>)>>,
      <<Exact(<<1, 0, 1>>)>>,
      <<Exact(<<1>>), Exact(<<0, 1>>)>>,
      <<Approx(<<1, 1>>, 2)>> }

\* 0, 1+x+x^2, -2/3+x+x^2, 1+x^2+x^4
ExpSeeds ==
    { PZero,
      IntPoly(<<1, 1, 1>>),
      <<Rat(-2, 3), ROne, ROne>>,
      IntPoly(<<1, 0, 1, 0, 1>>) }

\* every exponential part with the tails 1+x+x^2 and 1+x^2, and every tail
\* with the exponential part 0
RawContinuous ==
    {[tail |-> te[1], exp |-> te[2], ramification |-> r] :
        te \in {x \in TailSeeds \X ExpSeeds :
                    \/ x[2] = PZero
                    \/ x[1] \in {<<Exact(<<1, 1, 1>>)>>, <<Exact(<<1, 0, 1>>)>>}},
        r \in (-1)..MaxRam}

\* gamma and a ramification that gamma's denominator divides
GammaSeeds == {RZero, Rat(1, 2)}

RhoSeeds == {ROne, RInt(2)}

\* 0, x^2
SubexpSeeds == {PZero, IntPoly(<<0, 0, 1>>)}

AlphaSeeds == {RZero, Rat(1, 2)}

GammaRams ==
    {gr \in GammaSeeds \X ((-1)..MaxDiscRam) :
        gr[2] <= 0 \/ gr[2] % denominator(gr[1]) = 0}

\* 0, 1, 1+x, x, 1 + x*LOG, 1+x+O(x^2)
ExpansionSeeds ==
    { TZero,
      <<Exact(<<1>>)>>,
      <<Exact(<<1, 1>>)>>,
      <<Exact(<<0, 1>>)>>,
      <<Exact(<<1>>), Exact(<<0, 1>>)>>,
      <<Approx(<<1, 1>>, 2)>> }

\* rho, subexp and alpha: the neutral values and one change of each
RhoSubAlpha ==
    { <<ROne, PZero, RZero>>,
      <<RInt(2), PZero, RZero>>,
      <<ROne, IntPoly(<<0, 0, 1>>), RZero>>,
      <<ROne, PZero, Rat(1, 2)>> }

RawDiscrete ==
    {Data(gr[1], gr[2], rsa[1], rsa[2], rsa[3], expansion) :
        gr \in GammaRams, rsa \in RhoSubAlpha, expansion \in ExpansionSeeds}

\* [], [[1, 1]], [1, x] and [1, [0, 1]]
ListSeeds ==
    { <<>>,
      <<ListEntry(<<ROne, ROne>>)>>,
      <<SeriesEntry(Exact(<<1>>)), SeriesEntry(Exact(<<0, 1>>))>>,
      <<SeriesEntry(Exact(<<1>>)), ListEntry(<<RZero, ROne>>)>> }

\* the data [0, ram, 1, 0, 0, list] with a list of expansion coefficients
RawDiscreteLists ==
    {Data(RZero, ram, ROne, PZero, RZero, l) : ram \in 0..1, l \in ListSeeds}

(***************************************************************************)
(* A session: a caller builds two series A and B of one domain with the    *)
(* constructor, calls the operations on them and may bind a returned       *)
(* series to A or B again.                                                 *)
(***************************************************************************)
VARIABLES kind, pc, A, B, ret, kept, registry, rawlist, threads

vars == <<kind, pc, A, B, ret, kept, registry, rawlist, threads>>

Idle == [op |-> "idle", st |-> "ok", val |-> NoVal, arg |-> NoVal]

\* the list of expansion coefficients a caller handed to the discrete
\* constructor and still holds; NoList when the caller holds none
NoList == [given |-> FALSE, items |-> <<>>]

Call(op, r, arg) == [op |-> op, st |-> r.st, val |-> r.val, arg |-> arg]

\* a returned Python object that is not a series: True, False or None
PyObj(name) == [py |-> name]

Py(b) == PyObj(IF b THEN "True" ELSE "False")

Reference(reference) == [reference |-> reference]

C_zero == ContinuousGeneralizedSeries(TZero, PZero, 1).val

C_one == ContinuousGeneralizedSeries(TOne, PZero, 1).val

D_zero == D_from_polynomial(PZero).val

D_one == D_from_polynomial(PConst(ROne)).val

SeriesOps == {"mul", "add", "neg", "invert"}

\* the arguments handed to substitute: something that is not a rational
\* number, -1, 0, 1/2, 3/5, 1 and the integers up to MaxRam
SubstituteArgs ==
    {NotRational, Rational(RInt(-1)), Rational(RZero), Rational(Rat(1, 2)),
     Rational(Rat(3, 5))}
        \cup {Rational(RInt(n)) : n \in 1..MaxRam}

Init ==
    /\ kind \in {"continuous", "discrete"}
    /\ pc = "A"
    /\ A = IF kind = "continuous" THEN C_zero ELSE D_zero
    /\ B = A
    /\ ret = Idle
    /\ kept = 0
    /\ registry = <<Monoid(QQ, <<"x">>, kind)>>
    /\ rawlist = NoList
    /\ threads = <<>>

Ready == pc = "ready" /\ ret.op = "idle"

Continuous == kind = "continuous"

Discrete == kind = "discrete"

\* G(tail, exp=..., ramification=...)
Construct ==
    /\ pc \in {"A", "B"}
    /\ ret.op = "idle"
    /\ \/ /\ Continuous
          /\ \E raw \in RawContinuous :
                ret' = Call("construct",
                            ContinuousGeneralizedSeries(raw.tail, raw.exp, raw.ramification),
                            raw)
       \/ /\ Discrete
          /\ \E raw \in RawDiscrete :
                ret' = Call("construct", DiscreteGeneralizedSeries(raw), raw)
    /\ UNCHANGED <<kind, pc, A, B, kept, registry, rawlist, threads>>

\* l = [...]; G([gamma, ram, rho, subexp, alpha, l])
ConstructFromList ==
    /\ pc \in {"A", "B"}
    /\ ret.op = "idle"
    /\ Discrete
    /\ \E raw \in RawDiscreteLists :
          LET r == DiscreteGeneralizedSeries_from_list(raw)
          IN /\ ret' = Call("construct", r.result, raw)
             /\ rawlist' = [given |-> TRUE, items |-> r.expansion]
    /\ UNCHANGED <<kind, pc, A, B, kept, registry, threads>>

\* A = G(...); B = G(...)
Bind ==
    /\ ret.op = "construct"
    /\ ret.st = "ok"
    /\ \/ pc = "A" /\ A' = ret.val /\ pc' = "B" /\ B' = B
       \/ pc = "B" /\ B' = ret.val /\ pc' = "ready" /\ A' = A
    /\ ret' = Idle
    /\ rawlist' = NoList
    /\ UNCHANGED <<kind, kept, registry, threads>>

Mul ==
    /\ Ready
    /\ ret' = Call("mul", IF Continuous THEN C_mul(A, B) ELSE D_mul(A, B), NoVal)
    /\ UNCHANGED <<kind, pc, A, B, kept, registry, rawlist, threads>>

Add ==
    /\ Ready
    /\ ret' = Call("add", IF Continuous THEN C_add(A, B) ELSE D_add(A, B), NoVal)
    /\ UNCHANGED <<kind, pc, A, B, kept, registry, rawlist, threads>>

Neg ==
    /\ Ready
    /\ ret' = Call("neg", IF Continuous THEN C_neg(A) ELSE D_neg(A), NoVal)
    /\ UNCHANGED <<kind, pc, A, B, kept, registry, rawlist, threads>>

Invert ==
    /\ Ready
    /\ ret' = Call("invert", IF Continuous THEN C_invert(A) ELSE D_invert(A), NoVal)
    /\ UNCHANGED <<kind, pc, A, B, kept, registry, rawlist, threads>>

Similar ==
    /\ Ready
    /\ \E reference \in {"ZZ", "QQ"} :
          ret' = Call("similar",
                      Returned(Py(IF Continuous THEN C_similar(A, B, reference)
                                  ELSE D_similar(A, B, reference))),
                      Reference(reference))
    /\ UNCHANGED <<kind, pc, A, B, kept, registry, rawlist, threads>>

HasLogarithms ==
    /\ Ready
    /\ ret' = Call("has_logarithms",
                   Returned(PyObj(IF Continuous THEN C_has_logarithms(A)
                                  ELSE D_has_logarithms(A))),
                   NoVal)
    /\ UNCHANGED <<kind, pc, A, B, kept, registry, rawlist, threads>>

HasExponentialPart ==
    /\ Ready
    /\ Continuous
    /\ ret' = Call("has_exponential_part", Returned(Py(C_has_exponential_part(A))), NoVal)
    /\ UNCHANGED <<kind, pc, A, B, kept, registry, rawlist, threads>>

ExponentialPart ==
    /\ Ready
    /\ Continuous
    /\ ret' = Call("exponential_part", C_exponential_part(A), NoVal)
    /\ UNCHANGED <<kind, pc, A, B, kept, registry, rawlist, threads>>

TailPart ==
    /\ Ready
    /\ Continuous
    /\ ret' = Call("tail", C_tail(A), NoVal)
    /\ UNCHANGED <<kind, pc, A, B, kept, registry, rawlist, threads>>

Derivative ==
    /\ Ready
    /\ Continuous
    /\ ret' = Call("derivative", C_derivative(A), NoVal)
    /\ UNCHANGED <<kind, pc, A, B, kept, registry, rawlist, threads>>

Substitute ==
    /\ Ready
    /\ Continuous
    /\ \E e \in SubstituteArgs :
          ret' = Call("substitute", C_substitute(A, e), e)
    /\ UNCHANGED <<kind, pc, A, B, kept, registry, rawlist, threads>>

\* the precision the shift quotient is asked for is bounded
Shift ==
    /\ Ready
    /\ Discrete
    /\ \/ D_is_zero(A)
       \/ \A c \in coefficients(A.expansion) : c.pr >= infinity \/ c.pr <= MaxPrec + 1
    /\ \E i \in (-1)..MaxShift :
          ret' = Call("shift", D_shift(A, i), [i |-> i])
    /\ UNCHANGED <<kind, pc, A, B, kept, registry, rawlist, threads>>

\* the bound on the series a caller binds again
Fits(v) ==
    /\ v.ramification <= (IF Continuous THEN MaxRam ELSE MaxDiscRam)
    /\ LET T == IF Continuous THEN v.tail ELSE v.expansion
       IN /\ Len(T) <= 2
          /\ \A j \in DOMAIN T :
                /\ Len(T[j].co) <= MaxKeepDeg + 1
                /\ (T[j].pr >= infinity \/ T[j].pr <= MaxKeepDeg + 1)
                /\ \A i \in DOMAIN T[j].co : T[j].co[i] \in {RZero, ROne, RInt(-1)}
    /\ IF Continuous THEN v.exp \in ExpSeeds
       ELSE /\ v.subexp \in SubexpSeeds
            /\ v.gamma \in GammaSeeds
            /\ v.rho \in RhoSeeds \cup {RZero}
            /\ v.alpha \in AlphaSeeds \cup {RInt(-1), Rat(-1, 2)}

\* A = A*B and the like
Keep ==
    /\ ret.op \in SeriesOps
    /\ ret.st = "ok"
    /\ kept < MaxKeeps
    /\ Fits(ret.val)
    /\ \/ A' = ret.val /\ B' = B
       \/ B' = ret.val /\ A' = A
    /\ ret' = Idle
    /\ kept' = kept + 1
    /\ UNCHANGED <<kind, pc, registry, rawlist, threads>>

Drop ==
    /\ ret.op # "idle"
    /\ ret' = Idle
    /\ rawlist' = NoList
    /\ UNCHANGED <<kind, pc, A, B, kept, registry, threads>>

Next ==
    \/ Construct
    \/ ConstructFromList
    \/ Bind
    \/ Mul
    \/ Add
    \/ Neg
    \/ Invert
    \/ Similar
    \/ HasLogarithms
    \/ HasExponentialPart
    \/ ExponentialPart
    \/ TailPart
    \/ Derivative
    \/ Substitute
    \/ Shift
    \/ Keep
    \/ Drop

Spec == Init /\ [][Next]_vars

(***************************************************************************)
(* Calls of the shift quotient on its own: precision, shift, gamma, rho,   *)
(* subexp and alpha are handed in by the caller.                           *)
(***************************************************************************)
\* 0, 1/2, -1/2, -1, -2
QuotientGammas == {RZero, Rat(1, 2), Rat(-1, 2), RInt(-1), RInt(-2)}

\* None, ([], 1), ([], 2), ([0], 1), ([1], 1)
QuotientSubexps ==
    { NoSubexp, Subexp(<<>>, 1), Subexp(<<>>, 2), Subexp(<<RZero>>, 1),
      Subexp(<<ROne>>, 1) }

QuotientArgs ==
    [prec : 0..MaxPrec, shift : (-1)..MaxShift, gamma : QuotientGammas,
     rho : RhoSeeds, subexp : QuotientSubexps, alpha : AlphaSeeds]

InitQuotient ==
    /\ kind = "discrete"
    /\ pc = "engine"
    /\ A = D_zero
    /\ B = D_zero
    /\ ret = Idle
    /\ kept = 0
    /\ registry = <<Monoid(QQ, <<"x">>, kind)>>
    /\ rawlist = NoList
    /\ threads = <<>>

ShiftQuotient ==
    /\ pc = "engine"
    /\ ret.op = "idle"
    /\ \E a \in QuotientArgs :
          ret' = Call("shift_quotient",
                      generalized_series_shift_quotient(a.prec, a.shift, a.gamma,
                                                        a.rho, a.subexp, a.alpha),
                      a)
    /\ UNCHANGED <<kind, pc, A, B, kept, registry, rawlist, threads>>

NextQuotient ==
    \/ ShiftQuotient
    \/ Drop

SpecQuotient == InitQuotient /\ [][NextQuotient]_vars

(***************************************************************************)
(* Calls of the factory and of base_extend, one after the other.           *)
(***************************************************************************)
\* QQ, the number fields QQ(a), QQ(a)(a), ..., and the ring ZZ
RECURSIVE Tower(_)
Tower(k) == IF k = 0 THEN QQ ELSE NumberField(Tower(k - 1), "a")

Bases == {Tower(k) : k \in 0..MaxExtensions} \cup {ZZ}

\* x, logx, xLOG
Names == {<<"x">>, <<"l", "o", "g", "x">>, <<"x", "L", "O", "G">>}

Types == {"continuous", "discrete", "formal"}

InitDomains ==
    /\ kind = "continuous"
    /\ pc = "domains"
    /\ A = C_zero
    /\ B = C_zero
    /\ ret = Idle
    /\ kept = 0
    /\ registry = <<>>
    /\ rawlist = NoList
    /\ threads = <<>>

MakeDomain ==
    /\ pc = "domains"
    /\ ret.op = "idle"
    /\ Len(registry) < MaxDomains
    /\ \E base \in Bases, x \in Names, type \in Types :
          LET r == GeneralizedSeriesMonoid(registry, base, x, type)
          IN /\ registry' = r.parents
             /\ ret' = Call("makeDomain", r.result, Monoid(base, x, type))
    /\ UNCHANGED <<kind, pc, A, B, kept, rawlist, threads>>

BaseExtend ==
    /\ pc = "domains"
    /\ ret.op = "idle"
    /\ Len(registry) < MaxDomains
    /\ \E h \in DOMAIN registry,
          ext \in {Extension("a")} \cup {ExtensionField(b) : b \in Bases} :
          /\ ext.parent \/ Len(registry[h].base.gens) < MaxExtensions
          /\ LET r == base_extend(registry, h, ext)
             IN /\ registry' = r.parents
                /\ ret' = Call("baseExtend", r.result,
                               Monoid(IF ext.parent THEN ext.ring
                                      ELSE NumberField(registry[h].base, ext.name),
                                      registry[h].var, registry[h].type))
    /\ UNCHANGED <<kind, pc, A, B, kept, rawlist, threads>>

NextDomains ==
    \/ MakeDomain
    \/ BaseExtend
    \/ Drop

SpecDomains == InitDomains /\ [][NextDomains]_vars

(***************************************************************************)
(* Calls of the factory by several threads.  The factory holds no lock:    *)
(* the interpreter may switch threads between the construction of M, any   *)
(* two rounds of the loop over the list of parents, the end of the loop    *)
(* and the append.                                                         *)
(***************************************************************************)
ThreadIds == 1..MaxThreads

\* the arguments of the calls: QQ or QQ(a), the name x, both types
ThreadArgs ==
    {Monoid(base, <<"x">>, type) :
        base \in {QQ, NumberField(QQ, "a")}, type \in {"continuous", "discrete"}}

\* a thread outside the factory
IdleThread ==
    [pc |-> "idle", M |-> Monoid(QQ, <<"x">>, "continuous"), i |-> 0, result |-> NoVal]

InitThreads ==
    /\ kind = "continuous"
    /\ pc = "threads"
    /\ A = C_zero
    /\ B = C_zero
    /\ ret = Idle
    /\ kept = 0
    /\ registry = <<>>
    /\ rawlist = NoList
    /\ threads = [t \in ThreadIds |-> IdleThread]

\* line 113: M = GeneralizedSeriesMonoid_class(base, x, type), and the
\* iterator of line 114 is made
ThreadCall(t) ==
    /\ pc = "threads"
    /\ threads[t].pc = "idle"
    /\ Len(registry) < MaxDomains
    /\ \E a \in ThreadArgs :
          LET M == GeneralizedSeriesMonoid_class(a.base, a.var, a.type)
          IN threads' = [threads EXCEPT ![t] =
                            [pc |-> IF M.st = "ok" THEN "scan" ELSE "done",
                             M |-> a, i |-> 1, result |-> NoVal]]
    /\ UNCHANGED <<kind, pc, A, B, ret, kept, registry, rawlist>>

\* lines 114-116: one round of the loop, which reads the list as it is now
ThreadScan(t) ==
    /\ pc = "threads"
    /\ threads[t].pc = "scan"
    /\ LET th == threads[t]
       IN IF th.i > Len(registry)
          THEN threads' = [threads EXCEPT ![t].pc = "append"]
          ELSE IF Monoid_eq(registry[th.i], th.M)
          THEN threads' = [threads EXCEPT ![t].pc = "done",
                                          ![t].result = Handle(th.i)]
          ELSE threads' = [threads EXCEPT ![t].i = th.i + 1]
    /\ UNCHANGED <<kind, pc, A, B, ret, kept, registry, rawlist>>

\* lines 117-118
ThreadAppend(t) ==
    /\ pc = "threads"
    /\ threads[t].pc = "append"
    /\ registry' = Append(registry, threads[t].M)
    /\ threads' = [threads EXCEPT ![t].pc = "done",
                                  ![t].result = Handle(Len(registry) + 1)]
    /\ UNCHANGED <<kind, pc, A, B, ret, kept, rawlist>>

\* the caller has taken the domain
ThreadReturn(t) ==
    /\ pc = "threads"
    /\ threads[t].pc = "done"
    /\ threads' = [threads EXCEPT ![t] = IdleThread]
    /\ UNCHANGED <<kind, pc, A, B, ret, kept, registry, rawlist>>

NextThreads ==
    \E t \in ThreadIds :
        \/ ThreadCall(t)
        \/ ThreadScan(t)
        \/ ThreadAppend(t)
        \/ ThreadReturn(t)

SpecThreads == InitThreads /\ [][NextThreads]_vars

(***************************************************************************)
(* Vocabulary of the properties.                                           *)
(***************************************************************************)
IsZero(v) == IF Continuous THEN C_is_zero(v) ELSE D_is_zero(v)

Eq(u, v) == IF Continuous THEN C_eq(u, v) ELSE D_eq(u, v)

Zero == IF Continuous THEN C_zero ELSE D_zero

One == IF Continuous THEN C_one ELSE D_one

TailOf(v) == IF Continuous THEN v.tail ELSE v.expansion

LogDegree(v) == TDegree(TailOf(v))

ReturnsSeries == ret.op \in SeriesOps \cup {"construct"} /\ ret.st = "ok"

\* the lcm of the denominators of all the exponents of v, each taken as a
\* multiple of 1/ramification
MinimalRamification(v) ==
    IF Continuous
    THEN lcmSet({denominator(Rat(e, v.ramification)) : e \in exponents(v.exp)}
                \cup DenominatorsOver(coefficients(v.tail), v.ramification))
    ELSE lcmSet({denominator(v.gamma)}
                \cup {denominator(Rat(e, v.ramification)) : e \in exponents(v.subexp)}
                \cup DenominatorsOver(coefficients(v.expansion), v.ramification))

\* the coefficient of x^k in E(x^(s/r))
InflatedCoef(E, r, s, k) ==
    IF k % (s \div r) = 0 THEN Coef(E, k \div (s \div r)) ELSE RZero

\* s*(E_A - E_B) lies in the reference set, s the common ramification
SameGrowth(U, V, reference) ==
    LET s == lcm(U.ramification, V.ramification)
    IN /\ \A k \in 1..(s * (Len(U.exp) + Len(V.exp))) :
            InflatedCoef(U.exp, U.ramification, s, k)
                = InflatedCoef(V.exp, V.ramification, s, k)
       /\ InReference(RMul(RInt(s), RSub(Coef(U.exp, 0), Coef(V.exp, 0))), reference)

\* equal gamma and rho, equal subexp at the common ramification, and the
\* difference of the leading exponents in the reference set
SameDiscreteGrowth(U, V, reference) ==
    LET s == lcm(U.ramification, V.ramification)
    IN /\ U.gamma = V.gamma
       /\ U.rho = V.rho
       /\ \A k \in 0..(s * (Len(U.subexp) + Len(V.subexp))) :
            InflatedCoef(U.subexp, U.ramification, s, k)
                = InflatedCoef(V.subexp, V.ramification, s, k)
       /\ InReference(RSub(U.alpha, V.alpha), reference)

(***************************************************************************)
(* C1.  Every value returned by a constructor or an arithmetic operation   *)
(* has the minimal ramification: the stored ramification is the lcm of the *)
(* denominators of the exponents it holds.                                 *)
(***************************************************************************)
C1_RamificationMinimal ==
    ReturnsSeries => ret.val.ramification = MinimalRamification(ret.val)

(***************************************************************************)
(* C2.  A*one == A, A*zero == zero and zero+A == A, each call returning a  *)
(* value.                                                                  *)
(***************************************************************************)
C2_UnitAndZero ==
    /\ (ret.op = "mul" /\ Eq(B, One)) => (ret.st = "ok" /\ Eq(ret.val, A))
    /\ (ret.op = "mul" /\ IsZero(B)) => (ret.st = "ok" /\ Eq(ret.val, Zero))
    /\ (ret.op = "add" /\ IsZero(A)) => (ret.st = "ok" /\ Eq(ret.val, B))

(***************************************************************************)
(* C3.  add of two nonzero series that are not similar raises ValueError   *)
(* and returns nothing; add with a zero operand returns the other operand. *)
(***************************************************************************)
SimilarZZ(U, V) ==
    IF Continuous THEN C_similar(U, V, "ZZ") ELSE D_similar(U, V, "ZZ")

C3_AddRequiresSimilar ==
    ret.op = "add" =>
        /\ (~IsZero(A) /\ ~IsZero(B) /\ ~SimilarZZ(A, B)) =>
                (ret.st = "ValueError" /\ ret.val = NoVal)
        /\ IsZero(A) => (ret.st = "ok" /\ ret.val = B)
        /\ (~IsZero(A) /\ IsZero(B)) => (ret.st = "ok" /\ ret.val = A)

C3_Witness ==
    /\ Discrete
    /\ ret.op = "add"
    /\ ~IsZero(A)
    /\ ~IsZero(B)
    /\ ~SimilarZZ(A, B)
    /\ ret.st = "ValueError"

(***************************************************************************)
(* C4.  invert raises ZeroDivisionError on the zero series, raises the     *)
(* ValueError of non-invertible series whenever the log-degree is          *)
(* positive, and returns a value only for a nonzero series without         *)
(* logarithms.                                                             *)
(***************************************************************************)
C4_InvertFailures ==
    ret.op = "invert" =>
        /\ IsZero(A) => ret.st = "ZeroDivisionError"
        /\ (~IsZero(A) /\ LogDegree(A) > 0) => ret.st = "ValueError"
        /\ ret.st = "ok" => (~IsZero(A) /\ LogDegree(A) = 0)

(***************************************************************************)
(* C5.  has_logarithms returns True exactly when the log-degree is         *)
(* positive and False otherwise.                                           *)
(***************************************************************************)
C5_HasLogarithms ==
    ret.op = "has_logarithms" =>
        /\ ret.val \in {Py(TRUE), Py(FALSE)}
        /\ ret.val = Py(TRUE) <=> LogDegree(A) > 0

(***************************************************************************)
(* C6.  has_exponential_part of a continuous series returns True exactly   *)
(* when its exponential part E is not the zero polynomial.                 *)
(***************************************************************************)
C6_HasExponentialPart ==
    ret.op = "has_exponential_part" => ret.val = Py(~PIsZero(A.exp))

(***************************************************************************)
(* C7.  similar is symmetric: similar(A, B) and similar(B, A) agree under  *)
(* the same reference set.                                                 *)
(***************************************************************************)
C7_SimilarSymmetric ==
    ret.op = "similar" =>
        ret.val = Py(IF Continuous THEN C_similar(B, A, ret.arg.reference)
                     ELSE D_similar(B, A, ret.arg.reference))

C7_Witness ==
    /\ Discrete
    /\ ret.op = "similar"
    /\ ret.arg.reference = "ZZ"
    /\ ret.val = Py(TRUE)
    /\ RLess(A.alpha, B.alpha)

(***************************************************************************)
(* C8.  Continuous similar(A, B, reference) is True exactly when           *)
(* s*(E_A - E_B), s = lcm(r_A, r_B), lies in the reference set.  With      *)
(* ramification 2, 1+x+x^2 and -2/3+x+x^2 are similar under QQ and not     *)
(* under ZZ; 1+x+x^2 at ramification 2 is similar to 1+x^2+x^4 at          *)
(* ramification 4.                                                         *)
(***************************************************************************)
HasExp(v, r, E) == v.ramification = r /\ v.exp = E

E_111 == IntPoly(<<1, 1, 1>>)

E_m23 == <<Rat(-2, 3), ROne, ROne>>

E_10101 == IntPoly(<<1, 0, 1, 0, 1>>)

C8_ContinuousSimilar ==
    (Continuous /\ ret.op = "similar") =>
        /\ ret.val = Py(SameGrowth(A, B, ret.arg.reference))
        /\ (HasExp(A, 2, E_111) /\ HasExp(B, 2, E_m23)) =>
                ret.val = Py(ret.arg.reference = "QQ")
        /\ (HasExp(A, 2, E_111) /\ HasExp(B, 4, E_10101)) => ret.val = Py(TRUE)

C8_Witness ==
    /\ Continuous
    /\ ret.op = "similar"
    /\ ret.arg.reference = "ZZ"
    /\ HasExp(A, 2, E_111)
    /\ HasExp(B, 4, E_10101)
    /\ ret.val = Py(TRUE)

(***************************************************************************)
(* C9.  Discrete similar(A, B, reference) is True exactly when gamma and   *)
(* rho are equal, the subexp polynomials agree at the common ramification  *)
(* and alpha_A - alpha_B lies in the reference set.  Stated for operands   *)
(* that hold their minimal ramification.                                   *)
(***************************************************************************)
C9_DiscreteSimilar ==
    (/\ Discrete
     /\ ret.op = "similar"
     /\ A.ramification = MinimalRamification(A)
     /\ B.ramification = MinimalRamification(B)) =>
        ret.val = Py(SameDiscreteGrowth(A, B, ret.arg.reference))

(***************************************************************************)
(* C10.  The ramification of a continuous product divides                  *)
(* lcm(r_A, r_B) and is the minimal one for the product; the product of    *)
(* the series with exponent 0 and tail 1+x+x^2 (or 1+x) at the             *)
(* ramifications 2 and 3 has ramification 6.                               *)
(***************************************************************************)
Plain(v, r, T) == v.ramification = r /\ v.exp = PZero /\ v.tail = T

T_111 == <<Exact(<<1, 1, 1>>)>>

T_11 == <<Exact(<<1, 1>>)>>

C10_ProductRamification ==
    (Continuous /\ ret.op = "mul") =>
        /\ ret.st = "ok"
        /\ lcm(A.ramification, B.ramification) % ret.val.ramification = 0
        /\ ret.val.ramification = MinimalRamification(ret.val)
        /\ (Plain(A, 2, T_111) /\ Plain(B, 3, T_111)) => ret.val.ramification = 6
        /\ (Plain(A, 2, T_11) /\ Plain(B, 3, T_11)) => ret.val.ramification = 6

C10_Witness ==
    /\ Continuous
    /\ ret.op = "mul"
    /\ Plain(A, 2, T_111)
    /\ Plain(B, 3, T_111)
    /\ ret.st = "ok"
    /\ ret.val.ramification = 6

(***************************************************************************)
(* C11.  For every continuous series A the product of its exponential part *)
(* and its tail is a series equal to A.                                    *)
(***************************************************************************)
C11_ExpTailRoundTrip ==
    ret.op = "exponential_part" =>
        /\ ret.st = "ok"
        /\ C_tail(A).st = "ok"
        /\ C_mul(ret.val, C_tail(A).val).st = "ok"
        /\ C_eq(C_mul(ret.val, C_tail(A).val).val, A)

C11_Witness ==
    /\ ret.op = "exponential_part"
    /\ A.ramification = 2
    /\ ~PIsZero(A.exp)
    /\ ret.val.ramification = 2
    /\ C_tail(A).val.ramification = 1
    /\ C_eq(C_mul(ret.val, C_tail(A).val).val, A)

(***************************************************************************)
(* C12.  For continuous A and B with similar(A, B) the derivative of A+B   *)
(* equals the sum of the derivatives of A and of B.                        *)
(***************************************************************************)
C12_DerivativeLinear ==
    (ret.op = "derivative" /\ C_similar(A, B, "ZZ")) =>
        /\ ret.st = "ok"
        /\ C_add(A, B).st = "ok"
        /\ C_derivative(C_add(A, B).val).st = "ok"
        /\ C_derivative(B).st = "ok"
        /\ C_add(ret.val, C_derivative(B).val).st = "ok"
        /\ C_eq(C_derivative(C_add(A, B).val).val,
                C_add(ret.val, C_derivative(B).val).val)

(***************************************************************************)
(* C13.  A series with exponent 0 and tail 1+x+x^2 built at a ramification *)
(* r > 1 keeps the ramification r, and substitute(r) returns a series of   *)
(* ramification 1 with exponent 0 whose tail is exactly 1+x+x^2.           *)
(***************************************************************************)
C13_SubstituteScenario ==
    /\ (/\ Continuous
        /\ ret.op = "construct"
        /\ ret.arg.tail = T_111
        /\ ret.arg.exp = PZero
        /\ ret.arg.ramification > 1) =>
            (ret.st = "ok" /\ Plain(ret.val, ret.arg.ramification, T_111))
    /\ (/\ ret.op = "substitute"
        /\ A.ramification > 1
        /\ Plain(A, A.ramification, T_111)
        /\ ret.arg = Rational(RInt(A.ramification))) =>
            (ret.st = "ok" /\ Plain(ret.val, 1, T_111))

C13_Witness ==
    /\ ret.op = "substitute"
    /\ Plain(A, 3, T_111)
    /\ ret.arg = Rational(RInt(3))
    /\ ret.st = "ok"
    /\ Plain(ret.val, 1, T_111)

(***************************************************************************)
(* C18.  substitute(A, e) raises its error for every e that is not a       *)
(* positive rational number, returns A itself for e = 1, and returns a     *)
(* normalized series for every other positive rational e.                  *)
(***************************************************************************)
C_Normalized(v) ==
    /\ v.ramification >= 1
    /\ v.ramification = MinimalRamification(v)
    /\ IF TIsZero(v.tail) THEN v.exp = PZero /\ v.ramification = 1
       ELSE MinSet({valuation(c) : c \in coefficients(v.tail)}) = 0

C18_SubstituteDomain ==
    ret.op = "substitute" =>
        /\ (~ret.arg.rational \/ ~RLess(RZero, ret.arg.q)) =>
                (ret.st = "TypeError" /\ ret.val = NoVal)
        /\ ret.arg = Rational(ROne) => (ret.st = "ok" /\ ret.val = A)
        /\ (ret.arg.rational /\ RLess(RZero, ret.arg.q) /\ ret.arg.q # ROne) =>
                (ret.st = "ok" /\ C_Normalized(ret.val))

C18_Witness ==
    /\ ret.op = "substitute"
    /\ ret.arg = Rational(RZero)
    /\ ~C_is_zero(A)
    /\ ret.st = "TypeError"

(***************************************************************************)
(* C14.  For the shift 0 the shift quotient returns x^(ram*prec), the      *)
(* polynomial that stands for the quotient 1 at the working scale, for     *)
(* every precision and whatever gamma, rho, subexp and alpha are.          *)
(***************************************************************************)
C14_ShiftQuotientBase ==
    (ret.op = "shift_quotient" /\ ret.arg.shift = 0) =>
        /\ ret.st = "ok"
        /\ Len(ret.val.poly)
              = 1 + ret.arg.prec * denominator(ret.arg.gamma)
                      * (IF ret.arg.subexp.given THEN ret.arg.subexp.m ELSE 1)
        /\ \A k \in DOMAIN ret.val.poly :
              ret.val.poly[k] = IF k = Len(ret.val.poly) THEN ROne ELSE RZero

C14_Witness ==
    /\ ret.op = "shift_quotient"
    /\ ret.arg.shift = 0
    /\ ret.arg.prec = 2
    /\ ret.arg.gamma = Rat(1, 2)
    /\ ret.arg.rho = RInt(2)
    /\ ret.arg.subexp = Subexp(<<ROne>>, 1)
    /\ ret.val = Polynomial(IntPoly(<<0, 0, 0, 0, 1>>))

(***************************************************************************)
(* C20.  For a shift i > 0 and gamma # 0 the shift quotient raises the     *)
(* error of insufficient precision exactly when prec + i*gamma < 0, and    *)
(* returns a certificate when prec + i*gamma >= 0.                         *)
(***************************************************************************)
C20_PrecisionError ==
    (ret.op = "shift_quotient" /\ ret.arg.shift > 0 /\ ret.arg.gamma # RZero) =>
        LET short == ret.arg.prec * denominator(ret.arg.gamma)
                        + ret.arg.shift * numerator(ret.arg.gamma) < 0
        IN /\ short => (ret.st = "ValueError" /\ ret.val = NoVal)
           /\ ~short => (ret.st = "ok" /\ ret.val.poly # PZero)

C20_Witness ==
    /\ ret.op = "shift_quotient"
    /\ ret.arg.shift = 2
    /\ ret.arg.gamma = RInt(-1)
    /\ ret.arg.prec = 1
    /\ ret.st = "ValueError"

(***************************************************************************)
(* C19.  shift of a discrete series, the zero series included, by a        *)
(* negative integer raises ValueError and returns nothing.                 *)
(***************************************************************************)
C19_NegativeShiftRejected ==
    (ret.op = "shift" /\ ret.arg.i < 0) =>
        (ret.st = "ValueError" /\ ret.val = NoVal)

(***************************************************************************)
(* C17.  The continuous and the discrete constructor raise ValueError      *)
(* whenever the given ramification is zero or negative, also for a zero    *)
(* tail or expansion, and no returned value has a ramification <= 0.       *)
(***************************************************************************)
GivenRamification ==
    IF Continuous THEN ret.arg.ramification ELSE ret.arg.ram

C17_RamificationError ==
    /\ (ret.op = "construct" /\ GivenRamification <= 0) =>
            (ret.st = "ValueError" /\ ret.val = NoVal)
    /\ ReturnsSeries => ret.val.ramification >= 1

C17_Witness ==
    /\ Continuous
    /\ ret.op = "construct"
    /\ ret.arg.ramification = -1
    /\ TIsZero(ret.arg.tail)
    /\ ret.st = "ValueError"

(***************************************************************************)
(* C15.  Over any sequence of calls of the factory and of base_extend: a   *)
(* call whose mode, variable name and coefficient field are those of a     *)
(* registered domain returns that domain and leaves the registry as it is; *)
(* every returned handle names the domain that was asked for; the registry *)
(* never holds two domains with the same three attributes; its entries     *)
(* stay where they are and only new ones are appended.                     *)
(***************************************************************************)
DomainCall(r) == r.op \in {"makeDomain", "baseExtend"}

C15_DomainDeduplication ==
    [][/\ Len(registry') >= Len(registry)
       /\ SubSeq(registry', 1, Len(registry)) = registry
       /\ \A g, h \in DOMAIN registry' : registry'[g] = registry'[h] => g = h
       /\ (DomainCall(ret') /\ ret'.st = "ok") =>
            /\ ret'.val.handle \in DOMAIN registry'
            /\ registry'[ret'.val.handle] = ret'.arg
            /\ \A h \in DOMAIN registry :
                  registry[h] = ret'.arg =>
                      (ret'.val.handle = h /\ registry' = registry)]_vars

C15_Witness ==
    /\ ret.op = "makeDomain"
    /\ ret.st = "ok"
    /\ Len(registry) = 2
    /\ ret.val = Handle(1)
    /\ registry[2].type = registry[1].type
    /\ registry[2].var = registry[1].var
    /\ registry[2].base # registry[1].base

(***************************************************************************)
(* C16.  The factory raises an error and returns nothing when the field is *)
(* neither QQ nor a number field, when the variable name contains the      *)
(* symbol LOG that the tail ring reserves for the logarithm, or when the   *)
(* mode is neither continuous nor discrete; a failed call leaves the       *)
(* registry unchanged.                                                     *)
(***************************************************************************)
InvalidDomain(d) ==
    \/ d.base.ring \notin {"QQ", "NumberField"}
    \/ \E k \in 1..(Len(d.var) - 2) :
          d.var[k] = "L" /\ d.var[k + 1] = "O" /\ d.var[k + 2] = "G"
    \/ d.type \notin {"continuous", "discrete"}

ValueOps ==
    SeriesOps \cup {"construct", "exponential_part", "tail", "derivative",
                    "substitute", "shift"}

ReturnsValue == ret.op \in ValueOps /\ ret.st = "ok"

\* the fields of the canonical zero, written out
CanonicalZero(v) ==
    IF Continuous
    THEN v.ramification = 1 /\ v.exp = PZero /\ v.tail = TZero
    ELSE /\ v.gamma = RZero
         /\ v.ramification = 1
         /\ v.rho = RZero
         /\ v.subexp = PZero
         /\ v.alpha = RZero
         /\ v.expansion = TZero

(***************************************************************************)
(* C21.  Every series returned by a constructor or an operation, and every *)
(* series a caller holds, whose tail/expansion is zero is the canonical    *)
(* zero (continuous: ramification 1, exponential part 0; discrete:         *)
(* gamma = 0, ramification = 1, rho = 0, subexp = 0, alpha = 0), and two   *)
(* zero values compare equal.                                              *)
(***************************************************************************)
C21_CanonicalZero ==
    /\ (ReturnsValue /\ IsZero(ret.val)) => CanonicalZero(ret.val)
    /\ IsZero(A) => CanonicalZero(A)
    /\ IsZero(B) => CanonicalZero(B)
    /\ (IsZero(A) /\ IsZero(B)) => Eq(A, B)
    /\ (ReturnsValue /\ IsZero(ret.val) /\ IsZero(A)) => Eq(ret.val, A)

\* a discrete sum of two nonzero series with rho = 2 that cancels
C21_Witness ==
    /\ Discrete
    /\ ret.op = "add"
    /\ ret.st = "ok"
    /\ ~IsZero(A)
    /\ ~IsZero(B)
    /\ A.rho = RInt(2)
    /\ IsZero(ret.val)
    /\ ret.val.rho = RZero

\* the least valuation of the nonzero coefficients of the tail/expansion
MinValuation(v) == MinSet({valuation(c) : c \in coefficients(TailOf(v))})

ValuationFolded(v) == IsZero(v) \/ MinValuation(v) = 0

(***************************************************************************)
(* C22.  Every call of a constructor or an operation (multiply, add,       *)
(* negate, invert, exponential part, tail, derivative, substitute, shift)  *)
(* either raises an error and returns nothing, or returns a series whose   *)
(* tail/expansion is zero or has coefficients of least valuation 0; the    *)
(* series a caller holds satisfy the same.                                 *)
(***************************************************************************)
C22_NoPartialFailure ==
    /\ ret.op \in ValueOps =>
          IF ret.st = "ok" THEN ValuationFolded(ret.val) ELSE ret.val = NoVal
    /\ ValuationFolded(A)
    /\ ValuationFolded(B)

\* a derivative whose second part had its valuation folded into the
\* exponential part: 1 + x^(1/2) has the derivative x^(-1/2) * 1/2
C22_Witness ==
    /\ ret.op = "derivative"
    /\ ret.st = "ok"
    /\ A.ramification = 2
    /\ A.exp = PZero
    /\ ~IsZero(ret.val)
    /\ ret.val.exp = PConst(Rat(-1, 2))
    /\ MinValuation(ret.val) = 0

(***************************************************************************)
(* C23.  No call changes what it was given: over every call the series A   *)
(* and B the caller holds keep their fields, and the list of expansion     *)
(* coefficients handed to the discrete constructor is, after the call, the *)
(* list that was handed in.                                                *)
(***************************************************************************)
C23_Immutability ==
    [][(ret.op = "idle" /\ ret'.op # "idle") =>
          /\ A' = A
          /\ B' = B
          /\ rawlist'.given => rawlist'.items = ret'.arg.expansion]_vars

(***************************************************************************)
(* C24.  derivative never raises the error of an addition of series that   *)
(* are not similar: for every series A a caller holds, the two parts that  *)
(* derivative(A) adds are zero or similar for the reference set ZZ, the    *)
(* call does not raise ValueError, and the derivative of a constant series *)
(* is the zero series.                                                     *)
(***************************************************************************)
C24_DerivativeDefined ==
    ret.op = "derivative" =>
        LET part_1 == C_derivative_part_1(A).val
            part_2 == C_derivative_part_2(A).val
        IN /\ C_is_zero(part_1) \/ C_is_zero(part_2) \/ C_similar(part_1, part_2, "ZZ")
           /\ ret.st # "ValueError"
           /\ (A.exp = PZero /\ TDegree(A.tail) = 0 /\ degree(A.tail[1].co) = 0) =>
                 (ret.st = "ok" /\ ret.val = C_zero)

\* both parts are nonzero and were normalized to different ramifications
C24_Witness ==
    /\ ret.op = "derivative"
    /\ ret.st = "ok"
    /\ ~C_is_zero(C_derivative_part_1(A).val)
    /\ ~C_is_zero(C_derivative_part_2(A).val)
    /\ C_derivative_part_1(A).val.ramification
          # C_derivative_part_2(A).val.ramification

(***************************************************************************)
(* C25.  The discrete product of two nonzero series A and B is returned    *)
(* and has gamma = gamma_A + gamma_B, rho = rho_A * rho_B,                 *)
(* alpha = alpha_A + alpha_B, and, read at the common ramification         *)
(* lcm(ram_A, ram_B), the subexp that is the sum of the inflated subexps   *)
(* of A and B and the expansion that is the product of their inflated      *)
(* expansions.                                                             *)
(***************************************************************************)
C25_DiscreteMultiply ==
    (Discrete /\ ret.op = "mul" /\ ~D_is_zero(A) /\ ~D_is_zero(B)) =>
        /\ ret.st = "ok"
        /\ ret.val.gamma = RAdd(A.gamma, B.gamma)
        /\ ret.val.rho = RMul(A.rho, B.rho)
        /\ ret.val.alpha = RAdd(A.alpha, B.alpha)
        /\ LET s == lcm(A.ramification, B.ramification)
               a == D_inflate(A, s)
               b == D_inflate(B, s)
               quo == s \div ret.val.ramification
           IN /\ s % ret.val.ramification = 0
              /\ PCompose(ret.val.subexp, quo) = PAdd(a.subexp, b.subexp)
              /\ TEq(map_coefficients(LAMBDA c : PSCompose(c, quo), ret.val.expansion),
                     TMul(a.expansion, b.expansion))

(***************************************************************************)
(* C26.  substitute composes: for every continuous series A and positive   *)
(* rational numbers a and b, substitute(substitute(A, a), b) is returned   *)
(* and equals substitute(A, a*b); substituting 3/5 and then 10/3 into      *)
(* 1 + x^(1/2) + x^(2/2) returns 1 + x + x^2 with ramification 1.          *)
(***************************************************************************)
\* 1/2, 2, 3, 5/3 and 10/3
SecondExponents == {Rat(1, 2), RInt(2), RInt(3), Rat(5, 3), Rat(10, 3)}

C26_SubstituteComposes ==
    (ret.op = "substitute" /\ ret.st = "ok") =>
        /\ \A b \in SecondExponents :
              LET twice == C_substitute(ret.val, Rational(b))
                  once == C_substitute(A, Rational(RMul(ret.arg.q, b)))
              IN /\ twice.st = "ok"
                 /\ once.st = "ok"
                 /\ C_eq(twice.val, once.val)
        /\ (Plain(A, 2, T_111) /\ ret.arg = Rational(Rat(3, 5))) =>
              Plain(C_substitute(ret.val, Rational(Rat(10, 3))).val, 1, T_111)

\* the first step of the scenario: 1 + x^(3/10) + x^(6/10)
C26_Witness ==
    /\ ret.op = "substitute"
    /\ ret.st = "ok"
    /\ ret.arg = Rational(Rat(3, 5))
    /\ Plain(A, 2, T_111)
    /\ Plain(ret.val, 10, <<Exact(<<1, 0, 0, 1, 0, 0, 1>>)>>)
    /\ C_substitute(ret.val, Rational(Rat(10, 3))).val.ramification = 1

(***************************************************************************)
(* C27.  With threads calling the factory at the same time, the list of    *)
(* parents never holds two domains with the same type, base and variable,  *)
(* and two threads that asked for the same domain are handed the same one. *)
(***************************************************************************)
C27_RegistryUnique ==
    /\ \A h, k \in DOMAIN registry :
          Monoid_eq(registry[h], registry[k]) => h = k
    /\ \A t, u \in DOMAIN threads :
          (/\ threads[t].pc = "done"
           /\ threads[u].pc = "done"
           /\ Monoid_eq(threads[t].M, threads[u].M)) =>
              threads[t].result = threads[u].result

\* the stored fields of v handed to the normalizing constructor again
Renormalized(v) ==
    IF Continuous THEN ContinuousGeneralizedSeries(v.tail, v.exp, v.ramification)
    ELSE DiscreteGeneralizedSeries(
             Data(v.gamma, v.ramification, v.rho, v.subexp, v.alpha, v.expansion))

\* the subexp (discrete) or the exponential part up to its constant term
\* (continuous) of v, written for the ramification s
GrowthAt(v, s) ==
    LET E == IF Continuous THEN v.exp ELSE v.subexp
        quo == s \div v.ramification
    IN [k \in 1..(Len(E) - 1) * quo |-> InflatedCoef(E, v.ramification, s, k)]

(***************************************************************************)
(* C28.  The stored fields of every returned series, handed to the         *)
(* normalizing constructor again, give a series equal to the original; and *)
(* a constructor that rewrote the exponents for a smaller ramification     *)
(* stores that ramification: the returned series, read at the ramification *)
(* it stores, has the exponents that were handed in.                       *)
(***************************************************************************)
C28_NormalizationIdempotent ==
    /\ ReturnsValue =>
          /\ Renormalized(ret.val).st = "ok"
          /\ Eq(Renormalized(ret.val).val, ret.val)
    /\ (ret.op = "construct" /\ ret.st = "ok" /\ ~IsZero(ret.val)) =>
          /\ GivenRamification % ret.val.ramification = 0
          /\ GrowthAt(ret.val, GivenRamification)
                = GrowthAt([ramification |-> GivenRamification,
                            exp |-> IF Continuous THEN ret.arg.exp ELSE PZero,
                            subexp |-> IF Continuous THEN PZero ELSE ret.arg.subexp],
                           GivenRamification)

(***************************************************************************)
(* C29.  A shift by zero is the identity: shift(A, 0) returns a series     *)
(* equal to A for every discrete series A; and the shift of the zero       *)
(* series by any nonnegative i is the zero series.                         *)
(***************************************************************************)
C29_ShiftByZero ==
    ret.op = "shift" =>
       /\ ret.arg.i = 0 => (ret.st = "ok" /\ D_eq(ret.val, A))
       /\ (D_is_zero(A) /\ ret.arg.i >= 0) => (ret.st = "ok" /\ D_is_zero(ret.val))

Product(u, v) == IF Continuous THEN C_mul(u, v) ELSE D_mul(u, v)

Inverse(v) == IF Continuous THEN C_invert(v) ELSE D_invert(v)

\* the exponential data of w is the negated exponential data of v
NegatedGrowth(v, w) ==
    IF Continuous THEN w.exp = PNeg(v.exp)
    ELSE /\ w.gamma = RNeg(v.gamma)
         /\ w.rho = RInv(v.rho)
         /\ w.subexp = PNeg(v.subexp)
         /\ w.alpha = RNeg(v.alpha)

\* invert was called on a nonzero series without logarithmic terms
InvertibleCall ==
    /\ ret.op = "invert"
    /\ ~IsZero(A)
    /\ LogDegree(A) = 0

(***************************************************************************)
(* C30.  For every nonzero series A without logarithmic terms, invert(A)   *)
(* returns a series with the negated exponential data (rho inverted), and  *)
(* A * invert(A) == one and invert(invert(A)) == A.                        *)
(***************************************************************************)
C30_InverseRoundTrip ==
    InvertibleCall =>
       /\ ret.st = "ok"
       /\ NegatedGrowth(A, ret.val)
       /\ Product(A, ret.val).st = "ok"
       /\ Eq(Product(A, ret.val).val, One)
       /\ Inverse(ret.val).st = "ok"
       /\ Eq(Inverse(ret.val).val, A)

====
